---- MODULE Spec2Model ----
(***************************************************************************)
(* A model of the SWMM binary output reader (src/src/outputAPI.c): the     *)
(* opaque handle, SMO_init / SMO_open / SMO_close and the query surface,   *)
(* over byte-level output files.                                           *)
(*                                                                         *)
(* Files are sequences of bytes; every 4-byte read decodes little-endian   *)
(* bytes, as the code does on the hosts it targets.  REAL4 values are kept *)
(* as their 32-bit patterns (the reader never interprets them).            *)
(***************************************************************************)
EXTENDS Integers, Sequences, FiniteSets, TLC

\* ------------------------------------------------------------ bounds
MaxPeriods == 2      \* largest period count an epilogue of the file set declares
MaxLen     == 2      \* longest series a caller asks for
MaxClose   == 2      \* SMO_close calls made on one handle

\* ------------------------------------------------------------ constants
RECORDSIZE == 4
DATESIZE   == 8

Min(a, b) == IF a < b THEN a ELSE b
Max(a, b) == IF a > b THEN a ELSE b

\* ------------------------------------------------------------ machine words
\* A 4-byte word is kept as its signed 32-bit value.  An 8-byte value (F_OFF,
\* double) is kept as its two little-endian halves [hi, lo], each a word: its
\* value is hi * 2^32 + (lo taken unsigned).
LE4(x) == << x % 256, (x \div 256) % 256, (x \div 65536) % 256,
             (x \div 16777216) % 256 >>

\* the signed value of the 4 bytes at byte offset o of f
Dec4(f, o) == f[o + 1] + 256 * f[o + 2] + 65536 * f[o + 3]
              + 16777216 * (IF f[o + 4] >= 128 THEN f[o + 4] - 256 ELSE f[o + 4])

W64(hi, lo) == [hi |-> hi, lo |-> lo]
\* 64-bit sum of x and a (small) int n, with the carry between the halves
Add64(x, n) == LET s == x.lo + n
               IN  IF n >= 0 /\ x.lo < 0 /\ s >= 0 THEN W64(x.hi + 1, s)
                   ELSE IF n < 0 /\ x.lo >= 0 /\ s < 0 THEN W64(x.hi - 1, s)
                   ELSE W64(x.hi, s)
\* a 4-byte read stored into an 8-byte little-endian field: the low half is
\* replaced, the high half keeps what the field held
Put4(old, w) == W64(old.hi, w)

RECURSIVE Flat(_)
Flat(ws) == IF ws = << >> THEN << >> ELSE LE4(Head(ws)) \o Flat(Tail(ws))

RECURSIVE Cat(_)
Cat(ss) == IF ss = << >> THEN << >> ELSE Head(ss) \o Cat(Tail(ss))

\* ------------------------------------------------------------ output files
subcatch == 0
node     == 1
link     == 2
sys      == 3

\* the magic number the writer puts first and last (it differs by `bad` when
\* the file is not a finished output file)
MagicWord(bad) == 516114522 + bad

\* entity and variable counts of the files of the file set
Shapes ==
  << [ns |-> 1, nn |-> 2, nl |-> 1, np |-> 0, vs |-> 2, vn |-> 1, vl |-> 2, vy |-> 1],
     [ns |-> 2, nn |-> 1, nl |-> 1, np |-> 1, vs |-> 1, vn |-> 2, vl |-> 1, vy |-> 2] >>

NumIds(s) == s.ns + s.nn + s.nl + s.np
PeriodWords(s) == 2 + s.ns * s.vs + s.nn * s.vn + s.nl * s.vl + s.vy

\* the j-th (0-based) entry of the ID section: a letter and a run of digits
IdLen(j)   == 2 + (j % 3)
IdBytes(j) == << 65 + j >> \o [k \in 1..(IdLen(j) - 1) |-> 48 + j]
IdEntry(j) == LE4(IdLen(j)) \o IdBytes(j)

\* the words of period p: the 8-byte date, then one distinct value per slot
PeriodBytes(s, p) ==
  Flat([w \in 1..PeriodWords(s) |-> 1000 * (p + 1) + w])

\* a file: leader, header, IDs, pollutant units, object properties, variable
\* codes, start date and report step, `have` periods of results, epilogue
MkFile(s, nper, have, err, trailer) ==
  LET head   == Flat(<< MagicWord(0), 51000, 0, s.ns, s.nn, s.nl, s.np >>)
      ids    == Cat([j \in 1..NumIds(s) |-> IdEntry(j - 1)])
      units  == Flat([k \in 1..s.np |-> 0])
      idPos  == Len(head)
      objPos == idPos + Len(ids) + Len(units)
      props  == Flat([k \in 1..((s.ns + 2) + (3 * s.nn + 4) + (5 * s.nl + 6)) |-> 300 + k])
      vars   == Flat(<< s.vs >> \o [k \in 1..s.vs |-> k - 1]
                  \o << s.vn >> \o [k \in 1..s.vn |-> k - 1]
                  \o << s.vl >> \o [k \in 1..s.vl |-> k - 1]
                  \o << s.vy >> \o [k \in 1..s.vy |-> k - 1])
      start  == Flat(<< 4001, 4002, 60 >>)
      resPos == objPos + Len(props) + Len(vars) + Len(start)
      res    == Cat([p \in 1..have |-> PeriodBytes(s, p - 1)])
      epi    == Flat(<< idPos, objPos, resPos, nper, err, trailer >>)
  IN  head \o ids \o units \o props \o vars \o start \o res \o epi

NoFile == << >>

\* What the path may name: no file (s = 0), or for a shape s a file whose
\* epilogue declares nper periods, with the last `cut` of them missing from
\* the results section, terminating error code err, and a trailing magic
\* number that differs from the leading one when bad = 1.
Disk(s, nper, cut, err, bad) == [s |-> s, nper |-> nper, cut |-> cut, err |-> err, bad |-> bad]

Disks ==
  { Disk(0, 0, 0, 0, 0), Disk(1, 1, 1, 0, 0), Disk(2, 1, 0, 0, 0), Disk(1, -1, 0, 0, 0) } \cup
  { Disk(1, nper, 0, err, bad) : nper \in 0..MaxPeriods, err \in {0, 1}, bad \in {0, 1} }

Bytes ==
  [ d \in Disks |->
      IF d.s = 0 THEN NoFile
      ELSE MkFile(Shapes[d.s], d.nper, d.nper - d.cut, d.err, MagicWord(d.bad)) ]

\* ------------------------------------------------------------ streams
\* The state of one call's file I/O: whether the FILE pointer it uses is a
\* stream that is open (ok), the stream's position, the absolute seeks and
\* the reads the call has made, and whether it ran I/O on a pointer that is
\* no open stream (wild).
IoStart(ok, cur) ==
  [ok |-> ok, cur |-> cur, seeks |-> << >>, reads |-> << >>, wild |-> FALSE]

\* fseeko64(file, off, SEEK_SET): a negative target fails and moves nothing
SeekSet(io, off) ==
  IF ~io.ok THEN [io EXCEPT !.wild = TRUE]
  ELSE [io EXCEPT !.cur = IF off.hi < 0 THEN @ ELSE off,
                  !.seeks = Append(@, off)]

\* fseeko64(file, n, SEEK_CUR)
SeekCur(io, n) ==
  IF ~io.ok THEN [io EXCEPT !.wild = TRUE]
  ELSE [io EXCEPT !.cur = IF Add64(@, n).hi < 0 THEN @ ELSE Add64(@, n)]

\* fseeko64(file, n, SEEK_END)
SeekEnd(io, f, n) ==
  IF ~io.ok THEN [io EXCEPT !.wild = TRUE]
  ELSE [io EXCEPT !.cur = IF Len(f) + n < 0 THEN @ ELSE W64(0, Len(f) + n)]

\* whether n bytes can be read at position cur of f
Readable(f, cur, n) == cur.hi = 0 /\ cur.lo >= 0 /\ cur.lo + n <= Len(f)

\* the position after fread asked for n bytes at cur
AfterRead(f, cur, n) ==
  IF Readable(f, cur, n) THEN W64(0, cur.lo + n)
  ELSE IF cur.hi = 0 /\ cur.lo >= 0 /\ cur.lo < Len(f) THEN W64(0, Len(f))
  ELSE cur

\* fread(&x, RECORDSIZE, 1, file): the word read, or what x held when the
\* read fails (fread's result is never tested)
Read4(io, f, old) ==
  IF ~io.ok THEN [v |-> old, io |-> [io EXCEPT !.wild = TRUE]]
  ELSE [v  |-> IF Readable(f, io.cur, RECORDSIZE) THEN Dec4(f, io.cur.lo) ELSE old,
        io |-> [io EXCEPT !.cur = AfterRead(f, @, RECORDSIZE),
                          !.reads = Append(@, << io.cur, RECORDSIZE >>)]]

\* fread(&x, DATESIZE, 1, file) into an 8-byte object
Read8(io, f, old) ==
  IF ~io.ok THEN [v |-> old, io |-> [io EXCEPT !.wild = TRUE]]
  ELSE [v  |-> IF Readable(f, io.cur, DATESIZE)
               THEN W64(Dec4(f, io.cur.lo + 4), Dec4(f, io.cur.lo)) ELSE old,
        io |-> [io EXCEPT !.cur = AfterRead(f, @, DATESIZE),
                          !.reads = Append(@, << io.cur, DATESIZE >>)]]

\* fread(buf, RECORDSIZE, n, file): the n words of buf afterwards; the
\* items the file does not hold keep what buf held
ReadWords(io, f, n, buf) ==
  IF ~io.ok THEN [v |-> buf, io |-> [io EXCEPT !.wild = TRUE]]
  ELSE [v  |-> [k \in 1..Len(buf) |->
                 IF k <= n /\ Readable(f, io.cur, RECORDSIZE * k)
                 THEN Dec4(f, io.cur.lo + RECORDSIZE * (k - 1)) ELSE buf[k]],
        io |-> [io EXCEPT !.cur = AfterRead(f, @, RECORDSIZE * Max(n, 0)),
                          !.reads = Append(@, << io.cur, RECORDSIZE * n >>)]]

\* ------------------------------------------------------------ the handle
\* What a block fresh from malloc may hold in each 4-byte word: zero, or a
\* stale non-zero word of an earlier allocation.
StaleWords == {0, 1}

VARIABLES
  disk,     \* the file the path names, an element of Disks
  blk,      \* the word the malloc'ed handle block was filled with
  h,        \* the fields of struct SMOutputAPI (what its memory holds)
  handle,   \* "live" | "freed": the handle block
  stream,   \* "none" | "open" | "closed": the FILE that fopen returned
  cursor,   \* the stream's position while it is open
  res,      \* counts of resource operations made so far
  calls,    \* SMO_open calls and what the last returned, SMO_close calls that returned 0,
            \* whether a value or name query ran
  last,     \* the last API call: its name, arguments, result, outputs and I/O
  dt        \* the caller of datetime.c: its year, month and day, the DateTime
            \* and the decoded date it has obtained, and its last call

vars == << disk, blk, h, handle, stream, cursor, res, calls, last, dt >>

\* elementNames: a null pointer, or the table of ID entries
NullTable == [null |-> TRUE, tab |-> << >>]

\* SMO_init: malloc leaves every field but elementNames as the block held it.
\* Nperiods is a long, 4 bytes wide on the targets that the declarations of
\* outputAPI.h (__declspec, off64_t) are written for.
SMO_init(w) ==
  [ file |-> IF w = 0 THEN "NULL" ELSE "JUNK",
    elementNames |-> NullTable,
    Nperiods |-> w, FlowUnits |-> w,
    Nsubcatch |-> w, Nnodes |-> w, Nlinks |-> w, Npolluts |-> w,
    SubcatchVars |-> w, NodeVars |-> w, LinkVars |-> w, SysVars |-> w,
    StartDate |-> W64(w, w), ReportStep |-> w,
    IDPos |-> W64(w, w), ObjPropPos |-> W64(w, w), ResultsPos |-> W64(w, w),
    BytesPerPeriod |-> w ]

NoCall == [op |-> "SMO_init", arg |-> << >>, ret |-> 0, out |-> << >>,
           seeks |-> << >>, reads |-> << >>, wild |-> FALSE, uaf |-> FALSE]

\* a caller that has made no call of datetime.c
\* (DateFormat is a static int, zero when the program starts)
NoDates == [year |-> 0, month |-> 0, day |-> 0, date |-> 0, out |-> << >>, op |-> "none",
            DateFormat |-> 0, fmt |-> 0, s |-> << >>]

\* the handle after SMO_init, for a file and a stale word
InitHandle(d, w) ==
  /\ disk = d
  /\ blk = w
  /\ h = SMO_init(blk)
  /\ handle = "live"
  /\ stream = "none"
  /\ cursor = W64(0, 0)
  /\ res = [fopen |-> 0, fclose |-> 0, handleFree |-> 0,
            tableAlloc |-> 0, tableFree |-> 0, nameAlloc |-> 0, nameFree |-> 0]
  /\ calls = [open |-> 0, openret |-> 0, close |-> 0, io |-> FALSE]
  /\ last = NoCall

Init ==
  /\ \E d \in Disks, w \in StaleWords : InitHandle(d, w)
  /\ dt = NoDates

\* what an uninitialised local (a stack slot) may hold when a read into it fails
StackJunk == {0, 9}

\* ------------------------------------------------------------ open
\* validateFile: the epilogue and the two magic numbers; u is what the
\* locals errcode, magic1 and magic2 held before the reads
\* the tests of validateFile with the run's error code tested before the
\* period count
validCodeErrFirst(magic1, magic2, Nperiods, errcode) ==
  IF magic1 # magic2 THEN 435
  ELSE IF errcode # 0 THEN 435
  ELSE IF Nperiods <= 0 THEN 436
  ELSE 0

\* the tests that end validateFile (lines 749-757)
validCode(magic1, magic2, Nperiods, errcode) ==
  IF magic1 # magic2 THEN 435
  ELSE IF Nperiods <= 0 THEN 436
  ELSE IF errcode # 0 THEN 435
  ELSE 0

validateFile(hh, io, f, u) ==
  LET io1 == SeekEnd(io, f, (-6) * RECORDSIZE)
      r1  == Read4(io1, f, hh.IDPos.lo)
      r2  == Read4(r1.io, f, hh.ObjPropPos.lo)
      r3  == Read4(r2.io, f, hh.ResultsPos.lo)
      r4  == Read4(r3.io, f, hh.Nperiods)
      r5  == Read4(r4.io, f, u)
      r6  == Read4(r5.io, f, u)
      io7 == SeekSet(r6.io, W64(0, 0))
      r7  == Read4(io7, f, u)
  IN  [ hh  |-> [hh EXCEPT !.IDPos = Put4(@, r1.v), !.ObjPropPos = Put4(@, r2.v),
                           !.ResultsPos = Put4(@, r3.v), !.Nperiods = r4.v],
        io  |-> r7.io,
        ret |-> validCode(r7.v, r6.v, r4.v, r5.v) ]

\* fseeko64 past the r.v codes that follow the count just read, then the
\* fread of the next count
SkipRead(r, f, old) == Read4(SeekCur(r.io, r.v * RECORDSIZE), f, old)

\* SMO_open, lines 107-143: the header, the variable counts, the start date
\* and report step, and the bytes per period
ReadHeader(hh, io, f, u) ==
  LET version == Read4(io, f, u)
      r1 == Read4(version.io, f, hh.FlowUnits)
      r2 == Read4(r1.io, f, hh.Nsubcatch)
      r3 == Read4(r2.io, f, hh.Nnodes)
      r4 == Read4(r3.io, f, hh.Nlinks)
      r5 == Read4(r4.io, f, hh.Npolluts)
      offset == Add64(hh.ObjPropPos,
                      (r2.v + 2) * RECORDSIZE + (3 * r3.v + 4) * RECORDSIZE
                      + (5 * r4.v + 6) * RECORDSIZE)
      io6 == SeekSet(r5.io, offset)
      r6  == Read4(io6, f, hh.SubcatchVars)
      r7  == SkipRead(r6, f, hh.NodeVars)
      r8  == SkipRead(r7, f, hh.LinkVars)
      r9  == SkipRead(r8, f, hh.SysVars)
      io10 == SeekSet(r9.io, Add64(hh.ResultsPos, (-3) * RECORDSIZE))
      r10 == Read8(io10, f, hh.StartDate)
      r11 == Read4(r10.io, f, hh.ReportStep)
  IN  [ hh |-> [hh EXCEPT !.FlowUnits = r1.v, !.Nsubcatch = r2.v, !.Nnodes = r3.v,
                          !.Nlinks = r4.v, !.Npolluts = r5.v,
                          !.SubcatchVars = r6.v, !.NodeVars = r7.v,
                          !.LinkVars = r8.v, !.SysVars = r9.v,
                          !.StartDate = r10.v, !.ReportStep = r11.v,
                          !.BytesPerPeriod =
                             DATESIZE + (r2.v * r6.v + r3.v * r7.v + r4.v * r8.v + r9.v)
                                        * RECORDSIZE],
        io |-> r11.io ]

\* SMO_close on the fields hh: the code it returns and what it releases
SMO_close(hh, st, rs) ==
  IF hh.file = "NULL"
  THEN [ret |-> 412, res |-> rs, stream |-> st, handle |-> "same", wild |-> FALSE]
  ELSE [ret |-> 0,
        res |-> [rs EXCEPT
                   !.nameFree = @ + (IF ~hh.elementNames.null
                                     THEN hh.Nsubcatch + hh.Nnodes + hh.Nlinks + hh.Npolluts
                                     ELSE 0),
                   !.fclose = @ + 1,
                   !.handleFree = @ + 1],
        stream |-> IF hh.file = "FILE" /\ st = "open" THEN "closed" ELSE st,
        handle |-> "freed",
        wild   |-> ~(hh.file = "FILE" /\ st = "open")]

\* SMO_open up to its final test of errorcode
SMO_open(hh, f, u) ==
  LET opened == f # NoFile
      h0 == [hh EXCEPT !.file = IF opened THEN "FILE" ELSE "NULL"]
      io0 == IoStart(opened, W64(0, 0))
      v  == validateFile(h0, io0, f, u)
      b  == ReadHeader(v.hh, v.io, f, u)
  IN  IF ~opened THEN [ret |-> 434, hh |-> h0, io |-> io0, opened |-> FALSE]
      ELSE IF v.ret # 0 THEN [ret |-> v.ret, hh |-> v.hh, io |-> v.io, opened |-> TRUE]
      ELSE [ret |-> 0, hh |-> b.hh, io |-> b.io, opened |-> TRUE]

\* ------------------------------------------------------------ scalar readers
\* Each returns [v, io]: the REAL4 read, or u (what the local `value` held)
\* when the read fails.
getSubcatchValue(hh, io, f, u, timeIndex, subcatchIndex, attr) ==
  LET offset == Add64(hh.ResultsPos,
                      timeIndex * hh.BytesPerPeriod + 2 * RECORDSIZE
                      + RECORDSIZE * (subcatchIndex * hh.SubcatchVars + attr))
  IN  Read4(SeekSet(io, offset), f, u)

\* getNodeValue without the subcatchment block in its offset
getNodeValueNoSubcatch(hh, io, f, u, timeIndex, nodeIndex, attr) ==
  LET offset == Add64(hh.ResultsPos,
                      timeIndex * hh.BytesPerPeriod + 2 * RECORDSIZE
                      + RECORDSIZE * (nodeIndex * hh.NodeVars + attr))
  IN  Read4(SeekSet(io, offset), f, u)

getNodeValue(hh, io, f, u, timeIndex, nodeIndex, attr) ==
  LET offset == Add64(hh.ResultsPos,
                      timeIndex * hh.BytesPerPeriod + 2 * RECORDSIZE
                      + RECORDSIZE * (hh.Nsubcatch * hh.SubcatchVars
                                      + nodeIndex * hh.NodeVars + attr))
  IN  Read4(SeekSet(io, offset), f, u)

\* getLinkValue without the node block in its offset
getLinkValueNoNodes(hh, io, f, u, timeIndex, linkIndex, attr) ==
  LET offset == Add64(hh.ResultsPos,
                      timeIndex * hh.BytesPerPeriod + 2 * RECORDSIZE
                      + RECORDSIZE * (hh.Nsubcatch * hh.SubcatchVars
                                      + linkIndex * hh.LinkVars + attr))
  IN  Read4(SeekSet(io, offset), f, u)

getLinkValue(hh, io, f, u, timeIndex, linkIndex, attr) ==
  LET offset == Add64(hh.ResultsPos,
                      timeIndex * hh.BytesPerPeriod + 2 * RECORDSIZE
                      + RECORDSIZE * (hh.Nsubcatch * hh.SubcatchVars
                                      + hh.Nnodes * hh.NodeVars
                                      + linkIndex * hh.LinkVars + attr))
  IN  Read4(SeekSet(io, offset), f, u)

getSystemValue(hh, io, f, u, timeIndex, attr) ==
  LET offset == Add64(hh.ResultsPos,
                      timeIndex * hh.BytesPerPeriod + 2 * RECORDSIZE
                      + RECORDSIZE * (hh.Nsubcatch * hh.SubcatchVars
                                      + hh.Nnodes * hh.NodeVars
                                      + hh.Nlinks * hh.LinkVars + attr))
  IN  Read4(SeekSet(io, offset), f, u)

\* the `for` loops of the series and attribute queries: one scalar read per
\* point <<timeIndex, index, attr>> of pts, in order, stored into out
RECURSIVE SubcatchLoop(_, _, _, _, _, _)
SubcatchLoop(hh, io, f, u, pts, out) ==
  IF pts = << >> THEN [v |-> out, io |-> io]
  ELSE LET r == getSubcatchValue(hh, io, f, u, pts[1][1], pts[1][2], pts[1][3])
       IN  SubcatchLoop(hh, r.io, f, u, Tail(pts), Append(out, r.v))

RECURSIVE NodeLoop(_, _, _, _, _, _)
NodeLoop(hh, io, f, u, pts, out) ==
  IF pts = << >> THEN [v |-> out, io |-> io]
  ELSE LET r == getNodeValue(hh, io, f, u, pts[1][1], pts[1][2], pts[1][3])
       IN  NodeLoop(hh, r.io, f, u, Tail(pts), Append(out, r.v))

RECURSIVE LinkLoop(_, _, _, _, _, _)
LinkLoop(hh, io, f, u, pts, out) ==
  IF pts = << >> THEN [v |-> out, io |-> io]
  ELSE LET r == getLinkValue(hh, io, f, u, pts[1][1], pts[1][2], pts[1][3])
       IN  LinkLoop(hh, r.io, f, u, Tail(pts), Append(out, r.v))

RECURSIVE SystemLoop(_, _, _, _, _, _)
SystemLoop(hh, io, f, u, pts, out) ==
  IF pts = << >> THEN [v |-> out, io |-> io]
  ELSE LET r == getSystemValue(hh, io, f, u, pts[1][1], pts[1][3])
       IN  SystemLoop(hh, r.io, f, u, Tail(pts), Append(out, r.v))

\* the result of a query: its return code, the words it stored for the
\* caller, and its I/O
Res(ret, out, io) == [ret |-> ret, out |-> out, io |-> io]
Looped(r) == Res(0, r.v, r.io)

\* buf is the caller's buffer: whether the pointer is null, and the words it holds
SeriesPts(i, attr, timeIndex, length) == [k \in 1..length |-> << timeIndex + k - 1, i, attr >>]
AttrPts(n, attr, timeIndex) == [k \in 1..n |-> << timeIndex, k - 1, attr >>]

SMO_getSubcatchSeries(hh, io, f, u, subcatchIndex, attr, timeIndex, length, buf) ==
  IF hh.file = "NULL" THEN Res(412, << >>, io)
  ELSE IF buf.null THEN Res(411, << >>, io)
  ELSE Looped(SubcatchLoop(hh, io, f, u, SeriesPts(subcatchIndex, attr, timeIndex, length), << >>))

SMO_getNodeSeries(hh, io, f, u, nodeIndex, attr, timeIndex, length, buf) ==
  IF hh.file = "NULL" THEN Res(412, << >>, io)
  ELSE IF buf.null THEN Res(411, << >>, io)
  ELSE Looped(NodeLoop(hh, io, f, u, SeriesPts(nodeIndex, attr, timeIndex, length), << >>))

SMO_getLinkSeries(hh, io, f, u, linkIndex, attr, timeIndex, length, buf) ==
  IF hh.file = "NULL" THEN Res(412, << >>, io)
  ELSE IF buf.null THEN Res(411, << >>, io)
  ELSE Looped(LinkLoop(hh, io, f, u, SeriesPts(linkIndex, attr, timeIndex, length), << >>))

SMO_getSystemSeries(hh, io, f, u, attr, timeIndex, length, buf) ==
  IF hh.file = "NULL" THEN Res(412, << >>, io)
  ELSE IF buf.null THEN Res(411, << >>, io)
  ELSE Looped(SystemLoop(hh, io, f, u, SeriesPts(0, attr, timeIndex, length), << >>))

SMO_getSubcatchAttribute(hh, io, f, u, timeIndex, attr, buf) ==
  IF hh.file = "NULL" THEN Res(412, << >>, io)
  ELSE IF buf.null THEN Res(411, << >>, io)
  ELSE Looped(SubcatchLoop(hh, io, f, u, AttrPts(hh.Nsubcatch, attr, timeIndex), << >>))

SMO_getNodeAttribute(hh, io, f, u, timeIndex, attr, buf) ==
  IF hh.file = "NULL" THEN Res(412, << >>, io)
  ELSE IF buf.null THEN Res(411, << >>, io)
  ELSE Looped(NodeLoop(hh, io, f, u, AttrPts(hh.Nnodes, attr, timeIndex), << >>))

SMO_getLinkAttribute(hh, io, f, u, timeIndex, attr, buf) ==
  IF hh.file = "NULL" THEN Res(412, << >>, io)
  ELSE IF buf.null THEN Res(411, << >>, io)
  ELSE Looped(LinkLoop(hh, io, f, u, AttrPts(hh.Nlinks, attr, timeIndex), << >>))

SMO_getSystemAttribute(hh, io, f, u, timeIndex, attr, buf) ==
  IF hh.file = "NULL" THEN Res(412, << >>, io)
  ELSE IF buf.null THEN Res(411, << >>, io)
  ELSE Looped(SystemLoop(hh, io, f, u, AttrPts(1, attr, timeIndex), << >>))

\* the series and the attribute query of a kind
SeriesOf(kind, hh, io, f, u, i, attr, timeIndex, length, buf) ==
  CASE kind = subcatch -> SMO_getSubcatchSeries(hh, io, f, u, i, attr, timeIndex, length, buf)
    [] kind = node     -> SMO_getNodeSeries(hh, io, f, u, i, attr, timeIndex, length, buf)
    [] kind = link     -> SMO_getLinkSeries(hh, io, f, u, i, attr, timeIndex, length, buf)
    [] OTHER           -> SMO_getSystemSeries(hh, io, f, u, attr, timeIndex, length, buf)

AttributeOf(kind, hh, io, f, u, timeIndex, attr, buf) ==
  CASE kind = subcatch -> SMO_getSubcatchAttribute(hh, io, f, u, timeIndex, attr, buf)
    [] kind = node     -> SMO_getNodeAttribute(hh, io, f, u, timeIndex, attr, buf)
    [] kind = link     -> SMO_getLinkAttribute(hh, io, f, u, timeIndex, attr, buf)
    [] OTHER           -> SMO_getSystemAttribute(hh, io, f, u, timeIndex, attr, buf)

\* ------------------------------------------------------------ bulk readers
\* one seek and one fread of the entity's variables into the caller's buffer
BulkRead(io, f, offset, n, buf) ==
  LET r == ReadWords(SeekSet(io, offset), f, n, buf.w)
  IN  Res(0, r.v, r.io)

SMO_getSubcatchResult(hh, io, f, timeIndex, subcatchIndex, buf) ==
  IF hh.file = "NULL" THEN Res(412, << >>, io)
  ELSE IF buf.null THEN Res(411, << >>, io)
  ELSE BulkRead(io, f,
         Add64(hh.ResultsPos, timeIndex * hh.BytesPerPeriod + 2 * RECORDSIZE
                              + (subcatchIndex * hh.SubcatchVars) * RECORDSIZE),
         hh.SubcatchVars, buf)

SMO_getNodeResult(hh, io, f, timeIndex, nodeIndex, buf) ==
  IF hh.file = "NULL" THEN Res(412, << >>, io)
  ELSE IF buf.null THEN Res(411, << >>, io)
  ELSE BulkRead(io, f,
         Add64(hh.ResultsPos, timeIndex * hh.BytesPerPeriod + 2 * RECORDSIZE
                              + (hh.Nsubcatch * hh.SubcatchVars
                                 + nodeIndex * hh.NodeVars) * RECORDSIZE),
         hh.NodeVars, buf)

SMO_getLinkResult(hh, io, f, timeIndex, linkIndex, buf) ==
  IF hh.file = "NULL" THEN Res(412, << >>, io)
  ELSE IF buf.null THEN Res(411, << >>, io)
  ELSE BulkRead(io, f,
         Add64(hh.ResultsPos, timeIndex * hh.BytesPerPeriod + 2 * RECORDSIZE
                              + (hh.Nsubcatch * hh.SubcatchVars + hh.Nnodes * hh.NodeVars
                                 + linkIndex * hh.LinkVars) * RECORDSIZE),
         hh.LinkVars, buf)

\* SMO_getSystemResult: the block after the two guards is no else branch, so
\* it runs whatever the guards found; with a null file or a null buffer the
\* seek and the read run on them
SMO_getSystemResult(hh, io, f, timeIndex, buf) ==
  LET errorcode == IF hh.file = "NULL" THEN 412 ELSE IF buf.null THEN 411 ELSE 0
      offset == Add64(hh.ResultsPos, timeIndex * hh.BytesPerPeriod + 2 * RECORDSIZE
                                     + (hh.Nsubcatch * hh.SubcatchVars
                                        + hh.Nnodes * hh.NodeVars
                                        + hh.Nlinks * hh.LinkVars) * RECORDSIZE)
      io1 == SeekSet(io, offset)
      r   == ReadWords(io1, f, hh.SysVars, buf.w)
  IN  IF buf.null
      THEN Res(errorcode, << >>,
               [io1 EXCEPT !.wild = TRUE,
                           !.reads = IF io.ok THEN Append(@, << io1.cur, RECORDSIZE * hh.SysVars >>)
                                     ELSE @])
      ELSE Res(errorcode, r.v, r.io)

\* the result query of a kind
ResultOf(kind, hh, io, f, timeIndex, i, buf) ==
  CASE kind = subcatch -> SMO_getSubcatchResult(hh, io, f, timeIndex, i, buf)
    [] kind = node     -> SMO_getNodeResult(hh, io, f, timeIndex, i, buf)
    [] kind = link     -> SMO_getLinkResult(hh, io, f, timeIndex, i, buf)
    [] OTHER           -> SMO_getSystemResult(hh, io, f, timeIndex, buf)

\* ------------------------------------------------------------ metadata queries
subcatchCount  == 0
nodeCount      == 1
linkCount      == 2
pollutantCount == 3
flow_rate      == 0
reportStep     == 0
numPeriods     == 1
getAttribute   == 0
getResult      == 1

\* the double -1.0, which SMO_getStartTime stores before its guard
MinusOne == W64(-1074790400, 0)

\* SMO_getProjectSize with the cases of nodeCount and linkCount exchanged
SMO_getProjectSizeSwapped(hh, io, code) ==
  IF hh.file = "NULL" THEN Res(412, << -1 >>, io)
  ELSE CASE code = subcatchCount  -> Res(0, << hh.Nsubcatch >>, io)
         [] code = nodeCount      -> Res(0, << hh.Nlinks >>, io)
         [] code = linkCount      -> Res(0, << hh.Nnodes >>, io)
         [] code = pollutantCount -> Res(0, << hh.Npolluts >>, io)
         [] OTHER                 -> Res(421, << -1 >>, io)

\* SMO_getProjectSize: out is *count, set to -1 before the guard
SMO_getProjectSize(hh, io, code) ==
  IF hh.file = "NULL" THEN Res(412, << -1 >>, io)
  ELSE CASE code = subcatchCount  -> Res(0, << hh.Nsubcatch >>, io)
         [] code = nodeCount      -> Res(0, << hh.Nnodes >>, io)
         [] code = linkCount      -> Res(0, << hh.Nlinks >>, io)
         [] code = pollutantCount -> Res(0, << hh.Npolluts >>, io)
         [] OTHER                 -> Res(421, << -1 >>, io)

SMO_getUnits(hh, io, code) ==
  IF hh.file = "NULL" THEN Res(412, << -1 >>, io)
  ELSE IF code = flow_rate THEN Res(0, << hh.FlowUnits >>, io)
  ELSE Res(421, << -1 >>, io)

SMO_getStartTime(hh, io) ==
  IF hh.file = "NULL" THEN Res(412, << MinusOne.hi, MinusOne.lo >>, io)
  ELSE Res(0, << hh.StartDate.hi, hh.StartDate.lo >>, io)

SMO_getTimes(hh, io, code) ==
  IF hh.file = "NULL" THEN Res(412, << -1 >>, io)
  ELSE CASE code = reportStep -> Res(0, << hh.ReportStep >>, io)
         [] code = numPeriods -> Res(0, << hh.Nperiods >>, io)
         [] OTHER             -> Res(421, << -1 >>, io)

\* ------------------------------------------------------------ element names
\* fread(IDname, 1, n, file) into a zeroed buffer: the bytes read
ReadBytes(io, f, n) ==
  IF ~io.ok THEN [v |-> << >>, io |-> [io EXCEPT !.wild = TRUE]]
  ELSE LET got == IF io.cur.hi = 0 /\ io.cur.lo >= 0 /\ io.cur.lo < Len(f)
                  THEN Min(Max(n, 0), Len(f) - io.cur.lo) ELSE 0
       IN  [v  |-> [k \in 1..got |-> f[io.cur.lo + k]],
            io |-> [io EXCEPT !.cur = IF got = 0 THEN @ ELSE W64(0, @.lo + got),
                              !.reads = Append(@, << io.cur, n >>)]]

RECURSIVE NamesLoop(_, _, _, _)
NamesLoop(io, f, todo, table) ==
  IF todo = 0 THEN [v |-> table, io |-> io]
  ELSE LET len == Read4(io, f, 0)
           id  == ReadBytes(len.io, f, len.v)
       IN  NamesLoop(id.io, f, todo - 1,
                     Append(table, [IDname |-> id.v, length |-> len.v]))

\* initElementNames clearing the pollutant count as well
initElementNamesClobber(hh, io, f) ==
  LET numNames == hh.Nsubcatch + hh.Nnodes + hh.Nlinks + hh.Npolluts
      r == NamesLoop(SeekSet(io, hh.IDPos), f, numNames, << >>)
  IN  [hh |-> [hh EXCEPT !.elementNames = [null |-> FALSE, tab |-> r.v], !.Npolluts = 0],
       io |-> r.io, allocs |-> numNames]

\* initElementNames: calloc the table (taken to return a block for a count of
\* zero too), seek to IDPos once, then read the entries in sequence
initElementNames(hh, io, f) ==
  LET numNames == hh.Nsubcatch + hh.Nnodes + hh.Nlinks + hh.Npolluts
      r == NamesLoop(SeekSet(io, hh.IDPos), f, numNames, << >>)
  IN  [hh |-> [hh EXCEPT !.elementNames = [null |-> FALSE, tab |-> r.v]], io |-> r.io, allocs |-> numNames]

\* strncpy(name, src, n): the bytes copied before the padding
StrLen(src) == IF \E k \in 1..Len(src) : src[k] = 0
               THEN (CHOOSE k \in 1..Len(src) : src[k] = 0 /\ \A j \in 1..(k - 1) : src[j] # 0) - 1
               ELSE Len(src)
StrNCpy(src, n) == SubSeq(src, 1, Min(StrLen(src), n))

\* the switch on type with an index equal to the count let through
ElementIndexOffByOne(hh, type, index) ==
  CASE type = subcatch -> [errorcode |-> IF index < 0 \/ index > hh.Nsubcatch THEN 423 ELSE 0,
                           idx |-> index]
    [] type = node     -> [errorcode |-> IF index < 0 \/ index > hh.Nnodes THEN 423 ELSE 0,
                           idx |-> hh.Nsubcatch + index]
    [] type = link     -> [errorcode |-> IF index < 0 \/ index > hh.Nlinks THEN 423 ELSE 0,
                           idx |-> hh.Nsubcatch + hh.Nnodes + index]
    [] type = sys      -> [errorcode |-> IF index < 0 \/ index > hh.Npolluts THEN 423 ELSE 0,
                           idx |-> hh.Nsubcatch + hh.Nnodes + hh.Nlinks + index]
    [] OTHER           -> [errorcode |-> 421, idx |-> 0]

\* the switch on type (lines 268-283): the error code, and the index into
\* the table (which the code leaves unset where it sets an error code)
ElementIndex(hh, type, index) ==
  CASE type = subcatch -> [errorcode |-> IF index < 0 \/ index >= hh.Nsubcatch THEN 423 ELSE 0,
                           idx |-> index]
    [] type = node     -> [errorcode |-> IF index < 0 \/ index >= hh.Nnodes THEN 423 ELSE 0,
                           idx |-> hh.Nsubcatch + index]
    [] type = link     -> [errorcode |-> IF index < 0 \/ index >= hh.Nlinks THEN 423 ELSE 0,
                           idx |-> hh.Nsubcatch + hh.Nnodes + index]
    [] type = sys      -> [errorcode |-> IF index < 0 \/ index >= hh.Npolluts THEN 423 ELSE 0,
                           idx |-> hh.Nsubcatch + hh.Nnodes + hh.Nlinks + index]
    [] OTHER           -> [errorcode |-> 421, idx |-> 0]

\* the copy out of entry idx of the table tab (lines 285-289)
CopyName(tab, idx, cap) ==
  LET inside == idx + 1 \in DOMAIN tab
  IN  [out    |-> IF inside THEN << tab[idx + 1].length >> \o StrNCpy(tab[idx + 1].IDname, cap)
                  ELSE << 0 >>,
       inside |-> inside]

\* what SMO_getElementName does once the table is there
Named(i, e, cap, made) ==
  [ ret |-> e.errorcode,
    out |-> IF e.errorcode # 0 THEN << cap >> ELSE CopyName(i.hh.elementNames.tab, e.idx, cap).out,
    io  |-> IF e.errorcode = 0 /\ ~CopyName(i.hh.elementNames.tab, e.idx, cap).inside
            THEN [i.io EXCEPT !.wild = TRUE] ELSE i.io,
    hh |-> i.hh, made |-> made, allocs |-> i.allocs ]

\* SMO_getElementName building the table at every call
SMO_getElementNameAnew(hh, io, f, type, index, cap) ==
  Named(initElementNames(hh, io, f), ElementIndex(hh, type, index), cap, TRUE)

\* SMO_getElementName; cap is the caller's *length on entry.  out is the
\* value of *length on return followed by the bytes copied into name.
SMO_getElementName(hh, io, f, type, index, cap) ==
  IF hh.elementNames.null
  THEN Named(initElementNames(hh, io, f),
             ElementIndex(hh, type, index), cap, TRUE)
  ELSE Named([hh |-> hh, io |-> io, allocs |-> 0],
             ElementIndex(hh, type, index), cap, FALSE)

\* ------------------------------------------------------------ allocators
Zeros(n) == [k \in 1..n |-> 0]

\* out is *length followed by the zeroed array; a negative size makes calloc
\* fail (error 411, null array)
Allocated(size) ==
  IF size < 0 THEN [ret |-> 411, out |-> << size >>]
  ELSE [ret |-> 0, out |-> << size >> \o Zeros(size)]

\* SMO_newOutValueSeries without the cap at Nperiods
SMO_newOutValueSeriesUncapped(hh, io, seriesStart, seriesLength) ==
  IF hh.file = "NULL" THEN Res(412, << >>, io)
  ELSE Res(Allocated(seriesLength - seriesStart).ret,
           Allocated(seriesLength - seriesStart).out, io)

\* SMO_newOutValueSeries: out is empty where neither *length nor an array is
\* produced
SMO_newOutValueSeries(hh, io, seriesStart, seriesLength) ==
  IF hh.file = "NULL" THEN Res(412, << >>, io)
  ELSE LET size == IF seriesLength - seriesStart > hh.Nperiods THEN hh.Nperiods
                   ELSE seriesLength - seriesStart
       IN  Res(Allocated(size).ret, Allocated(size).out, io)

\* SMO_newOutValueArray giving the system SysVars words for getAttribute too
SMO_newOutValueArraySysVars(hh, io, func, type) ==
  IF hh.file = "NULL" THEN Res(412, << >>, io)
  ELSE IF func \notin {getAttribute, getResult} THEN Res(421, << >>, io)
  ELSE LET size == IF type = subcatch
                   THEN (IF func = getAttribute THEN hh.Nsubcatch ELSE hh.SubcatchVars)
                   ELSE IF type = node
                   THEN (IF func = getAttribute THEN hh.Nnodes ELSE hh.NodeVars)
                   ELSE IF type = link
                   THEN (IF func = getAttribute THEN hh.Nlinks ELSE hh.LinkVars)
                   ELSE hh.SysVars
       IN  Res(Allocated(size).ret, Allocated(size).out, io)

SMO_newOutValueArray(hh, io, func, type) ==
  IF hh.file = "NULL" THEN Res(412, << >>, io)
  ELSE CASE func = getAttribute ->
              LET size == IF type = subcatch THEN hh.Nsubcatch
                          ELSE IF type = node THEN hh.Nnodes
                          ELSE IF type = link THEN hh.Nlinks
                          ELSE 1
              IN  Res(Allocated(size).ret, Allocated(size).out, io)
         [] func = getResult ->
              LET size == IF type = subcatch THEN hh.SubcatchVars
                          ELSE IF type = node THEN hh.NodeVars
                          ELSE IF type = link THEN hh.LinkVars
                          ELSE hh.SysVars
              IN  Res(Allocated(size).ret, Allocated(size).out, io)
         [] OTHER -> Res(421, << >>, io)

\* ------------------------------------------------------------ messages
\* the message macros of the header: the text and its length in characters
Messages ==
  [ ERR411 |-> [text |-> "Input Error 411: no memory allocated for results.", len |-> 49],
    ERR412 |-> [text |-> "Input Error 412: no results; binary file hasn't been opened.", len |-> 60],
    ERR421 |-> [text |-> "Input Error 421: invalid parameter code.", len |-> 40],
    ERR434 |-> [text |-> "File Error  434: unable to open binary output file.", len |-> 51],
    ERR435 |-> [text |-> "File Error  435: run terminated; no results in binary file.", len |-> 59],
    ERR441 |-> [text |-> "Error 441: need to call SMO_open before calling this function", len |-> 61] ]

\* strncpy(errmsg, m, n): the text copied from and the number of its
\* characters that arrive in errmsg
Copied(m, n) == << m.text, Min(m.len, n) >>

\* SMO_errMessage: out is empty where errmsg is left as it was
SMO_errMessage(errcode, n) ==
  CASE errcode = 411 -> [ret |-> 0, out |-> Copied(Messages.ERR411, n)]
    [] errcode = 412 -> [ret |-> 0, out |-> Copied(Messages.ERR412, n)]
    [] errcode = 421 -> [ret |-> 0, out |-> Copied(Messages.ERR421, n)]
    [] errcode = 434 -> [ret |-> 0, out |-> Copied(Messages.ERR434, n)]
    [] errcode = 435 -> [ret |-> 0, out |-> Copied(Messages.ERR435, n)]
    [] OTHER         -> [ret |-> 421, out |-> << >>]

\* A call that ran I/O on a pointer that is no open stream, or that used the
\* handle block after its release, is the last call of the run: what follows
\* it is arbitrary.
Alive == ~last.wild /\ ~last.uaf

\* the fields a call finds in the handle block: those stored there while the
\* block is live; once it is released, either still those or others
\* (here: a file pointer that reads as null)
View == IF handle = "live" THEN {h} ELSE {h, [h EXCEPT !.file = "NULL"]}

StreamOk(hh) == hh.file = "FILE" /\ stream = "open"

\* SMO_open; when it fails it runs SMO_close on the handle (which returns at
\* once when fopen failed, the file being null)
Opened(o) ==
  LET st == IF o.opened THEN "open" ELSE stream
      rs == [res EXCEPT !.fopen = @ + (IF o.opened THEN 1 ELSE 0)]
  IN  \E c \in {SMO_close(o.hh, st, rs)} :
        /\ h' = o.hh
        /\ cursor' = IF o.ret = 0 THEN o.io.cur ELSE W64(0, 0)
        /\ stream' = IF o.ret # 0 THEN c.stream ELSE st
        /\ res' = IF o.ret # 0 THEN c.res ELSE rs
        /\ handle' = IF o.ret # 0 /\ c.handle = "freed" THEN "freed" ELSE handle
        /\ last' = [op |-> "SMO_open", arg |-> << >>, ret |-> o.ret, out |-> << >>,
                    seeks |-> o.io.seeks, reads |-> o.io.reads,
                    wild |-> o.io.wild, uaf |-> FALSE]
        /\ calls' = [calls EXCEPT !.open = @ + 1, !.openret = o.ret]

Open ==
  /\ Alive
  /\ calls.open = 0
  /\ handle = "live"
  /\ \E u \in StackJunk : Opened(SMO_open(h, Bytes[disk], u))
  /\ UNCHANGED << disk, blk, dt >>

Closed(c) ==
  /\ stream' = c.stream
  /\ res' = c.res
  /\ handle' = IF c.handle = "freed" THEN "freed" ELSE handle
  /\ last' = [op |-> "SMO_close", arg |-> << >>, ret |-> c.ret, out |-> << >>,
              seeks |-> << >>, reads |-> << >>,
              wild |-> c.wild, uaf |-> handle = "freed"]
  /\ cursor' = IF c.stream = "open" THEN cursor ELSE W64(0, 0)
  /\ calls' = [calls EXCEPT !.close = @ + (IF c.ret = 0 THEN 1 ELSE 0)]

Close ==
  /\ Alive
  /\ calls.close < MaxClose
  /\ \E hh \in View : Closed(SMO_close(hh, stream, res))
  /\ UNCHANGED << disk, blk, h, dt >>

\* ------------------------------------------------------------ the callers
Kinds == {subcatch, node, link, sys}

\* the counts a caller learns from the handle
Count(hh, kind) ==
  CASE kind = subcatch -> hh.Nsubcatch [] kind = node -> hh.Nnodes
    [] kind = link -> hh.Nlinks [] OTHER -> 1
VarCount(hh, kind) ==
  CASE kind = subcatch -> hh.SubcatchVars [] kind = node -> hh.NodeVars
    [] kind = link -> hh.LinkVars [] OTHER -> hh.SysVars

\* arguments of the value queries: entities and attributes the handle
\* reports (index 0 always), periods and lengths up to the bounds
\* (on a handle that is not open, the first of each)
IsOpen(hh)         == handle = "live" /\ hh.file = "FILE"
Entities(hh, kind) == IF IsOpen(hh) THEN 0..Max(Count(hh, kind) - 1, 0) ELSE {0}
Attrs(hh, kind)    == IF IsOpen(hh) THEN 0..Max(VarCount(hh, kind) - 1, 0) ELSE {0}
Periods(hh)        == IF IsOpen(hh) THEN 0..Max(Min(hh.Nperiods, MaxPeriods) - 1, 0) ELSE {0}
Lengths(hh, t)     == IF IsOpen(hh) THEN 0..Min(MaxLen, Max(Min(hh.Nperiods, MaxPeriods) - t, 1))
                      ELSE {1}
Buffers            == {"NULL", "BUF"}
Capacities         == {3}
\* a null buffer is passed with the first arguments only
First(b, xs)       == b = "NULL" => \A k \in DOMAIN xs : xs[k] = 0

\* a query call: the record of the call, the cursor, and the handle fields
Done(op, arg, r) ==
  /\ Alive
  /\ calls' = [calls EXCEPT !.io = TRUE]
  /\ last' = [op |-> op, arg |-> arg, ret |-> r.ret, out |-> r.out,
              seeks |-> r.io.seeks, reads |-> r.io.reads,
              wild |-> r.io.wild, uaf |-> handle = "freed"]
  /\ cursor' = r.io.cur
  /\ UNCHANGED << disk, blk, handle, stream, dt >>

Io(hh) == IoStart(StreamOk(hh), cursor)

\* a metadata or allocator call, which uses no stream; on an open handle
\* these are made before the first value or name query
Told(op, arg, r) ==
  /\ Alive
  /\ handle = "live" /\ h.file = "FILE" => ~calls.io
  /\ last' = [op |-> op, arg |-> arg, ret |-> r.ret, out |-> r.out,
              seeks |-> r.io.seeks, reads |-> r.io.reads,
              wild |-> r.io.wild, uaf |-> handle = "freed"]
  /\ UNCHANGED << disk, blk, h, handle, stream, cursor, res, calls, dt >>

GetProjectSize ==
  \E hh \in View, code \in 0..4 :
    Told("SMO_getProjectSize", << code >>, SMO_getProjectSize(hh, Io(hh), code))

GetUnits ==
  \E hh \in View, code \in 0..1 :
    Told("SMO_getUnits", << code >>, SMO_getUnits(hh, Io(hh), code))

GetStartTime ==
  \E hh \in View :
    Told("SMO_getStartTime", << >>, SMO_getStartTime(hh, Io(hh)))

GetTimes ==
  \E hh \in View, code \in 0..2 :
    Told("SMO_getTimes", << code >>, SMO_getTimes(hh, Io(hh), code))

GetElementName ==
  \E hh \in View, type \in 0..4, index \in (-1)..2, cap \in Capacities :
    \E r \in {SMO_getElementName(hh, Io(hh), Bytes[disk], type, index, cap)} :
        /\ Done("SMO_getElementName", << type, index, cap >>, r)
        /\ h' = IF handle = "live" THEN r.hh
                ELSE [h EXCEPT !.elementNames = r.hh.elementNames]
        /\ res' = [res EXCEPT !.tableAlloc = @ + (IF r.made THEN 1 ELSE 0),
                              !.nameAlloc = @ + r.allocs]

NewOutValueSeries ==
  \E hh \in View, start \in 0..1, len \in 0..(MaxPeriods + 1) :
    Told("SMO_newOutValueSeries", << start, len >>,
            SMO_newOutValueSeries(hh, Io(hh), start, len))

NewOutValueArray ==
  \E hh \in View, func \in 0..2, type \in Kinds :
    Told("SMO_newOutValueArray", << func, type >>,
            SMO_newOutValueArray(hh, Io(hh), func, type))

\* the codes a caller asks the message of: those the API returns, those the
\* header names, and one that is neither; and the sizes of its errmsg array
ErrCodes     == {0, 411, 412, 421, 423, 434, 435, 436, 441, 500}
MessageRooms == {16, 80}

\* SMO_errMessage takes no handle
ErrMessage ==
  /\ Alive
  /\ \E errcode \in ErrCodes, n \in MessageRooms :
       \E r \in {SMO_errMessage(errcode, n)} :
         last' = [op |-> "SMO_errMessage", arg |-> << errcode, n >>,
                  ret |-> r.ret, out |-> r.out, seeks |-> << >>, reads |-> << >>,
                  wild |-> FALSE, uaf |-> FALSE]
  /\ UNCHANGED << disk, blk, h, handle, stream, cursor, res, calls, dt >>

\* the caller's buffer for a query that stores n words
Buf(b, n) == [null |-> b = "NULL", w |-> IF b = "NULL" THEN << >> ELSE Zeros(n)]

GetSeries ==
  \E hh \in View, kind \in Kinds, u \in StackJunk, b \in Buffers :
    \E i \in Entities(hh, kind), a \in Attrs(hh, kind), t \in Periods(hh) :
     \E n \in Lengths(hh, t) :
          /\ First(b, << i, a, t >>)
          /\ Done("getSeries", << kind, i, a, t, n, b >>,
                  SeriesOf(kind, hh, Io(hh), Bytes[disk], u, i, a, t, n, Buf(b, n)))
          /\ UNCHANGED << h, res >>

GetAttribute ==
  \E hh \in View, kind \in Kinds, u \in StackJunk, b \in Buffers :
    \E a \in Attrs(hh, kind), t \in Periods(hh) :
          /\ First(b, << a, t >>)
          /\ Done("getAttribute", << kind, a, t, b >>,
                  AttributeOf(kind, hh, Io(hh), Bytes[disk], u, t, a, Buf(b, Count(hh, kind))))
          /\ UNCHANGED << h, res >>

GetResult ==
  \E hh \in View, kind \in Kinds, b \in Buffers :
    \E i \in Entities(hh, kind), t \in Periods(hh) :
          /\ First(b, << i, t >>)
          /\ Done("getResult", << kind, i, t, b >>,
                  ResultOf(kind, hh, Io(hh), Bytes[disk], t, i, Buf(b, VarCount(hh, kind))))
          /\ UNCHANGED << h, res >>

Next ==
  \/ Open \/ Close
  \/ GetProjectSize \/ GetUnits \/ GetStartTime \/ GetTimes
  \/ GetElementName
  \/ NewOutValueSeries \/ NewOutValueArray
  \/ ErrMessage
  \/ GetSeries \/ GetAttribute \/ GetResult

Spec == Init /\ [][Next]_vars

\* ------------------------------------------------------------ dates
\* datetime.c.  A DateTime is a double; the values met here are whole numbers
\* of days of less than 2^31 in size, which a double holds exactly, so that
\* the conversion of the int result of datetime_encodeDate to DateTime and
\* (int)floor(date) in datetime_decodeDate give back the same integer.
DateDelta == 693594

DaysPerMonth ==
  << << 31, 28, 31, 30, 31, 30, 31, 31, 30, 31, 30, 31 >>,
     << 31, 29, 31, 30, 31, 30, 31, 31, 30, 31, 30, 31 >> >>

\* n / d of C for d > 0: the quotient cut towards zero
Quot(n, d) == IF n >= 0 THEN n \div d ELSE -((-n) \div d)

divMod(n, d) ==
  IF d = 0 THEN [result |-> 0, remainder |-> 0]
  ELSE [result |-> Quot(n, d), remainder |-> n - d * Quot(n, d)]

\* isLeapYear with the rule of the Julian calendar
isLeapYearJulian(year) == IF year % 4 = 0 THEN 1 ELSE 0

isLeapYear(year) ==
  IF (year % 4 = 0) /\ ((year % 100 # 0) \/ (year % 400 = 0)) THEN 1 ELSE 0

\* the loop of datetime_encodeDate: day plus the days of the months 0..j-1
\* of a year of kind i
RECURSIVE DayOfYear(_, _, _)
DayOfYear(i, j, day) ==
  IF j = 0 THEN day ELSE DayOfYear(i, j - 1, day + DaysPerMonth[i + 1][j])

Encoded(i, day) == i * 365 + Quot(i, 4) - Quot(i, 100) + Quot(i, 400) + day - DateDelta

datetime_encodeDate(year, month, day) ==
  IF /\ year >= 1 /\ year <= 9999
     /\ month >= 1 /\ month <= 12
     /\ day >= 1 /\ day <= DaysPerMonth[isLeapYear(year) + 1][month]
  THEN Encoded(year - 1, DayOfYear(isLeapYear(year), month - 1, day))
  ELSE -DateDelta

\* the day counts of datetime_decodeDate
D1   == 365
D4   == D1 * 4 + 1
D100 == D4 * 25 - 1
D400 == D100 * 4 + 1

\* while (t >= D400)
RECURSIVE Spans400(_, _)
Spans400(t, y) ==
  IF t >= D400 THEN Spans400(t - D400, y + 400) ELSE [d |-> t, y |-> y]

\* a divMod of decodeDate and what follows it: the whole spans of `span` days
\* in s.d, each worth `years` years; where `leap` a quotient of 4 is a last
\* day that belongs to the third span
WholeSpans(s, r, years, span, leap) ==
  IF leap /\ r.result = 4
  THEN [d |-> r.remainder + span, y |-> s.y + (r.result - 1) * years]
  ELSE [d |-> r.remainder, y |-> s.y + r.result * years]

Spans100(s) == WholeSpans(s, divMod(s.d, D100), 100, D100, TRUE)
Spans4(s)   == WholeSpans(s, divMod(s.d, D4), 4, D4, FALSE)

\* Spans1 without the test for a quotient of 4
Spans1Plain(s) == WholeSpans(s, divMod(s.d, D1), 1, D1, FALSE)

Spans1(s) == WholeSpans(s, divMod(s.d, D1), 1, D1, TRUE)

\* the for (;;) loop over the months; past December it reads beyond
\* DaysPerMonth, which is given as month 13
RECURSIVE MonthLoop(_, _, _, _)
MonthLoop(y, k, m, d) ==
  IF m > 12 THEN << y, m, d + 1 >>
  ELSE IF d < DaysPerMonth[k + 1][m] THEN << y, m, d + 1 >>
  ELSE MonthLoop(y, k, m + 1, d - DaysPerMonth[k + 1][m])

Dated(s) == MonthLoop(s.y, isLeapYear(s.y), 1, s.d)

\* datetime_decodeDate: << *year, *month, *day >>
datetime_decodeDate(date) ==
  IF date + DateDelta <= 0 THEN << 0, 1, 1 >>
  ELSE Dated(Spans1(Spans4(Spans100(Spans400(date + DateDelta - 1, 1)))))

\* the years, months and days a caller passes: the years of the first
\* FirstYears (a whole cycle of the leap rule) and YearSpan years about
\* them and about each later pivot, and every month and day from just below
\* to just above the calendar's
FirstYears == 400
YearSpan   == 4
Pivots   == {1900, 2000, 2024, 9999}
Years    == ((1 - YearSpan)..(FirstYears + YearSpan))
            \cup UNION { (p - YearSpan)..(p + YearSpan) : p \in Pivots }
Months   == 0..13
Days     == 0..32

DateInit ==
  /\ InitHandle(Disk(0, 0, 0, 0, 0), 0)
  /\ \E y \in Years, m \in Months, d \in Days :
       dt = [NoDates EXCEPT !.year = y, !.month = m, !.day = d, !.op = "caller"]

EncodeDate ==
  /\ dt.op = "caller"
  /\ dt' = [dt EXCEPT !.date = datetime_encodeDate(dt.year, dt.month, dt.day),
                      !.op = "datetime_encodeDate"]
  /\ UNCHANGED << disk, blk, h, handle, stream, cursor, res, calls, last >>

DecodeDate ==
  /\ dt.op = "datetime_encodeDate"
  /\ dt' = [dt EXCEPT !.out = datetime_decodeDate(dt.date),
                      !.op = "datetime_decodeDate"]
  /\ UNCHANGED << disk, blk, h, handle, stream, cursor, res, calls, last >>

\* the date format codes of datetime.h
Y_M_D == 0
M_D_Y == 1
D_M_Y == 2

MonthTxt == << << "J", "A", "N" >>, << "F", "E", "B" >>, << "M", "A", "R" >>,
               << "A", "P", "R" >>, << "M", "A", "Y" >>, << "J", "U", "N" >>,
               << "J", "U", "L" >>, << "A", "U", "G" >>, << "S", "E", "P" >>,
               << "O", "C", "T" >>, << "N", "O", "V" >>, << "D", "E", "C" >> >>

\* sprintf of a non-negative int: its decimal digits, and the conversions
\* %4d (blanks to the left up to 4 characters) and %02d (zeros up to 2)
RECURSIVE Digits(_)
Digits(n) ==
  IF n < 10 THEN << << "0", "1", "2", "3", "4", "5", "6", "7", "8", "9" >>[n + 1] >>
  ELSE Digits(n \div 10) \o Digits(n % 10)

Padded(ds, width, pad) == [k \in 1..(width - Len(ds)) |-> pad] \o ds

Fmt4d(n)  == Padded(Digits(n), 4, " ")
Fmt02d(n) == Padded(Digits(n), 2, "0")

\* the switch of datetime_dateToStr on DateFormat, for the decoded date ymd
DateStr(format, ymd) ==
  CASE format = Y_M_D -> Fmt4d(ymd[1]) \o << "-" >> \o MonthTxt[ymd[2]] \o << "-" >> \o Fmt02d(ymd[3])
    [] format = M_D_Y -> MonthTxt[ymd[2]] \o << "-" >> \o Fmt02d(ymd[3]) \o << "-" >> \o Fmt4d(ymd[1])
    [] OTHER          -> Fmt02d(ymd[3]) \o << "-" >> \o MonthTxt[ymd[2]] \o << "-" >> \o Fmt4d(ymd[1])

\* datetime_dateToStr: the characters of s
datetime_dateToStr(format, date) == DateStr(format, datetime_decodeDate(date))

\* datetime_setDateFormat: DateFormat afterwards
datetime_setDateFormat(format, fmt) ==
  IF fmt >= Y_M_D /\ fmt <= M_D_Y THEN fmt ELSE format

\* the format codes a caller passes
FormatCodes == (Y_M_D - 1)..(D_M_Y + 1)

\* a caller that has decoded a date of one of the pivot years goes on to
\* choose formats and to print the date
Printing ==
  /\ dt.op \in {"datetime_decodeDate", "datetime_setDateFormat", "datetime_dateToStr"}
  /\ dt.year \in Pivots

SetDateFormat ==
  /\ Printing
  /\ \E fmt \in FormatCodes :
       dt' = [dt EXCEPT !.DateFormat = datetime_setDateFormat(dt.DateFormat, fmt),
                        !.fmt = fmt, !.op = "datetime_setDateFormat"]
  /\ UNCHANGED << disk, blk, h, handle, stream, cursor, res, calls, last >>

DateToStr ==
  /\ Printing
  /\ dt' = [dt EXCEPT !.s = datetime_dateToStr(dt.DateFormat, dt.date),
                      !.op = "datetime_dateToStr"]
  /\ UNCHANGED << disk, blk, h, handle, stream, cursor, res, calls, last >>

DateNext == EncodeDate \/ DecodeDate \/ SetDateFormat \/ DateToStr

DateSpec == DateInit /\ [][DateNext]_vars

\* ------------------------------------------------------------ properties
\* C1: on an open handle, a series or attribute query that returned 0 made,
\* for each point (p, i, a) it reads, one absolute seek to
\* ResultsPos + p * BytesPerPeriod + 8 + 4 * w and one read of 4 bytes there,
\* where w is i*v_sub + a for a subcatchment, n_sub*v_sub + i*v_node + a for
\* a node, n_sub*v_sub + n_node*v_node + i*v_link + a for a link and
\* n_sub*v_sub + n_node*v_node + n_link*v_link + a for the system; a result
\* query made one seek to the offset with a = 0 and one read of v_K words.
C1_ScalarOffsets ==
  LET Word(kind, i, a) ==
        CASE kind = subcatch -> i * h.SubcatchVars + a
          [] kind = node     -> h.Nsubcatch * h.SubcatchVars + i * h.NodeVars + a
          [] kind = link     -> h.Nsubcatch * h.SubcatchVars + h.Nnodes * h.NodeVars
                                + i * h.LinkVars + a
          [] OTHER           -> h.Nsubcatch * h.SubcatchVars + h.Nnodes * h.NodeVars
                                + h.Nlinks * h.LinkVars + a
      Pos(kind, p, i, a) ==
        Add64(h.ResultsPos, p * h.BytesPerPeriod + 8 + 4 * Word(kind, i, a))
      g == last.arg
  IN  IsOpen(h) /\ last.ret = 0 =>
        /\ last.op = "getSeries" =>
             /\ Len(last.seeks) = g[5] /\ Len(last.reads) = g[5]
             /\ \A k \in 1..g[5] :
                  /\ last.seeks[k] = Pos(g[1], g[4] + k - 1, g[2], g[3])
                  /\ last.reads[k] = << Pos(g[1], g[4] + k - 1, g[2], g[3]), 4 >>
        /\ last.op = "getAttribute" =>
             /\ Len(last.seeks) = Count(h, g[1]) /\ Len(last.reads) = Count(h, g[1])
             /\ \A k \in 1..Count(h, g[1]) :
                  /\ last.seeks[k] = Pos(g[1], g[3], k - 1, g[2])
                  /\ last.reads[k] = << Pos(g[1], g[3], k - 1, g[2]), 4 >>
        /\ last.op = "getResult" =>
             /\ last.seeks = << Pos(g[1], g[3], g[2], 0) >>
             /\ last.reads = << << Pos(g[1], g[3], g[2], 0), 4 * VarCount(h, g[1]) >> >>

\* a two-period series of the second attribute of a link has been read from
\* a file whose offsets fit 32 bits
C1_Reached ==
  /\ IsOpen(h) /\ h.ResultsPos.hi = 0
  /\ last.op = "getSeries" /\ last.ret = 0
  /\ last.arg[1] = link /\ last.arg[3] = 1 /\ last.arg[5] = 2
  /\ Len(last.reads) = 2

\* C3: after a successful open, BytesPerPeriod = 8 + 4 * (n_sub*v_sub +
\* n_node*v_node + n_link*v_link + v_sys), and the offsets the scalar readers
\* seek to, taken over every period below the period count and every
\* in-range (kind, entity, attribute), are pairwise distinct and are exactly
\* the 4-byte steps that follow the 8-byte date of each period up to the next
\* period's start: the slots are disjoint, clear of the dates, fill each
\* period, and no two periods share a byte.
C3_PeriodTiling ==
  LET f  == Bytes[disk]
      at == IoStart(TRUE, W64(0, 0))
      Sought(kind, p, i, a) ==
        (CASE kind = subcatch -> getSubcatchValue(h, at, f, 0, p, i, a)
           [] kind = node     -> getNodeValue(h, at, f, 0, p, i, a)
           [] kind = link     -> getLinkValue(h, at, f, 0, p, i, a)
           [] OTHER           -> getSystemValue(h, at, f, 0, p, a)).io.seeks[1]
      Slots == UNION { { << kind, i, a >> : i \in 0..(Count(h, kind) - 1),
                                            a \in 0..(VarCount(h, kind) - 1) } :
                       kind \in Kinds }
      Spans == 0..(h.Nperiods - 1)
      words == h.Nsubcatch * h.SubcatchVars + h.Nnodes * h.NodeVars
               + h.Nlinks * h.LinkVars + h.SysVars
      sought == { Sought(x[1], p, x[2], x[3]) : x \in Slots, p \in Spans }
  IN  IsOpen(h) =>
        /\ h.BytesPerPeriod = 8 + 4 * words
        /\ Cardinality(Slots) = words
        /\ Cardinality(sought) = Cardinality(Slots) * Cardinality(Spans)
        /\ sought = { Add64(h.ResultsPos, p * h.BytesPerPeriod + 8 + 4 * j) :
                        p \in Spans, j \in 0..(words - 1) }

\* a file of two periods has been opened
C3_Reached ==
  /\ IsOpen(h) /\ last.op = "SMO_open" /\ last.ret = 0
  /\ h.Nperiods = 2 /\ h.BytesPerPeriod = 36

C10_NameRange ==
  LET type  == last.arg[1]
      index == last.arg[2]
      count == CASE type = subcatch -> h.Nsubcatch
                 [] type = node     -> h.Nnodes
                 [] type = link     -> h.Nlinks
                 [] OTHER           -> h.Npolluts
  IN  IsOpen(h) /\ last.op = "SMO_getElementName" =>
        last.ret = IF type \notin Kinds THEN 421
                   ELSE IF index < 0 \/ index >= count THEN 423
                   ELSE 0

\* the name of pollutant 0 has been asked of an open file without pollutants
C10_Reached ==
  /\ IsOpen(h) /\ h.Npolluts = 0
  /\ last.op = "SMO_getElementName" /\ last.arg[1] = sys /\ last.arg[2] = 0
  /\ last.ret = 423

\* C2: on an open handle, for every kind, in-range entity i and attribute a,
\* start period p and length n with p + n <= Nperiods, and every k < n:
\* element k of the series (i, a, p, n) = element i of the attribute query
\* (p + k, a) = element a of the result query (p + k, i).
C2_Duality ==
  LET f == Bytes[disk]
  IN  IsOpen(h) =>
        \A kind \in Kinds, u1 \in StackJunk, u2 \in StackJunk :
          \A i \in 0..(Count(h, kind) - 1), a \in 0..(VarCount(h, kind) - 1),
             p \in 0..(h.Nperiods - 1) :
            \A n \in 1..(h.Nperiods - p) : \A k \in 0..(n - 1) :
              LET s == SeriesOf(kind, h, Io(h), f, u1, i, a, p, n, Buf("BUF", n))
                  t == AttributeOf(kind, h, Io(h), f, u2, p + k, a,
                                   Buf("BUF", Count(h, kind)))
                  r == ResultOf(kind, h, Io(h), f, p + k, i,
                                Buf("BUF", VarCount(h, kind)))
              IN  /\ s.out[k + 1] = t.out[i + 1]
                  /\ t.out[i + 1] = r.out[a + 1]

\* C5: once SMO_open has returned a non-zero code, the stream is not open,
\* and every later query returns 412, seeks and reads nothing, and does not
\* use the released handle block.
C5_FailedOpenUnusable ==
  calls.open = 1 /\ calls.openret # 0 =>
    /\ stream # "open"
    /\ last.op \notin {"SMO_open", "SMO_close", "SMO_errMessage"} =>
         /\ last.ret = 412
         /\ last.seeks = << >> /\ last.reads = << >>
         /\ ~last.wild /\ ~last.uaf

\* C6: once SMO_close has returned 0, every later call on the handle - a
\* query or another SMO_close - returns 412.
C6_AfterClose ==
  /\ calls.close >= 1 /\ last.op # "SMO_errMessage"
  /\ ~(last.op = "SMO_close" /\ calls.close = 1 /\ last.ret = 0)
  => last.ret = 412

\* C7: before any SMO_open, every query but SMO_getElementName, and
\* SMO_close, returns 412 on the handle SMO_init returned.
C7_BlankHandle ==
  calls.open = 0 /\ last.op \notin {"SMO_init", "SMO_getElementName", "SMO_errMessage"} =>
    last.ret = 412

\* C8: when SMO_close ends a sequence that called SMO_open, whatever that
\* returned: the stream has been closed as often as it was opened, the handle
\* block, the table of IDs and each ID string have been released exactly
\* once, and no call used a released block or a stream that is not open.
C8_Pairing ==
  calls.open = 1 /\ last.op = "SMO_close" =>
    /\ res.fclose = res.fopen
    /\ res.handleFree = 1
    /\ res.tableFree = res.tableAlloc
    /\ res.nameFree = res.nameAlloc
    /\ ~last.uaf /\ ~last.wild

\* C9: on an open handle, what a value query or SMO_getElementName returned
\* is what the same call returns from any other position of the stream (and
\* whatever its locals held): it does not depend on the calls before it.
C9_CursorIndependent ==
  LET f == Bytes[disk]
      g == last.arg
      Again(io, u) ==
        CASE last.op = "getSeries" ->
               SeriesOf(g[1], h, io, f, u, g[2], g[3], g[4], g[5], Buf(g[6], g[5]))
          [] last.op = "getAttribute" ->
               AttributeOf(g[1], h, io, f, u, g[3], g[2], Buf(g[4], Count(h, g[1])))
          [] last.op = "getResult" ->
               ResultOf(g[1], h, io, f, g[3], g[2], Buf(g[4], VarCount(h, g[1])))
          [] OTHER ->
               SMO_getElementName(h, io, f, g[1], g[2], g[3])
  IN  /\ IsOpen(h) /\ last.ret = 0
      /\ last.op \in {"getSeries", "getAttribute", "getResult", "SMO_getElementName"}
      => \A u \in StackJunk, c \in {0, Len(f)} :
           Again(IoStart(TRUE, W64(0, c)), u).out = last.out

\* C11: on an open handle, SMO_getElementName(type, index) that returned 0
\* reports the stored length of the entry of the file's ID table at flat
\* position index (subcatch), n_sub + index (node), n_sub + n_node + index
\* (link), n_sub + n_node + n_link + index (pollutant) - the table being the
\* (4-byte length, bytes) pairs that follow one another from the ID offset
\* of the epilogue - and has copied its first min(length, capacity) bytes.
C11_NameRoundTrip ==
  LET f     == Bytes[disk]
      type  == last.arg[1]
      index == last.arg[2]
      cap   == last.arg[3]
      flat  == CASE type = subcatch -> index
                 [] type = node     -> Dec4(f, 12) + index
                 [] type = link     -> Dec4(f, 12) + Dec4(f, 16) + index
                 [] OTHER           -> Dec4(f, 12) + Dec4(f, 16) + Dec4(f, 20) + index
      At[j \in 0..flat] == IF j = 0 THEN Dec4(f, Len(f) - 24)
                           ELSE At[j - 1] + 4 + Dec4(f, At[j - 1])
      len   == Dec4(f, At[flat])
  IN  IsOpen(h) /\ last.op = "SMO_getElementName" /\ last.ret = 0 =>
        /\ last.out[1] = len
        /\ Tail(last.out) = SubSeq(f, At[flat] + 5, At[flat] + 4 + Min(len, cap))

\* C12: on a handle whose file is null, SMO_getElementName returns 412,
\* leaves the table of IDs unbuilt, and neither seeks nor reads.
C12_NameChecksHandle ==
  handle = "live" /\ h.file = "NULL" /\ last.op = "SMO_getElementName" =>
    /\ last.ret = 412
    /\ h.elementNames.null
    /\ last.seeks = << >> /\ last.reads = << >>
    /\ ~last.wild

\* C13: SMO_getSystemResult returns 412 on a handle whose file is null and
\* 411 when the buffer is null, and in both cases neither seeks nor reads nor
\* stores anything; when both guards pass on an open handle it reads SysVars
\* words once.
C13_SystemResultGuards ==
  handle = "live" /\ last.op = "getResult" /\ last.arg[1] = sys =>
    /\ h.file = "NULL" =>
         /\ last.ret = 412
         /\ last.seeks = << >> /\ last.reads = << >> /\ ~last.wild
    /\ h.file # "NULL" /\ last.arg[4] = "NULL" =>
         /\ last.ret = 411
         /\ last.seeks = << >> /\ last.reads = << >> /\ ~last.wild
    /\ h.file = "FILE" /\ last.arg[4] = "BUF" =>
         /\ last.ret = 0
         /\ Len(last.reads) = 1 /\ last.reads[1][2] = RECORDSIZE * h.SysVars

\* C14: SMO_errMessage(code, errmsg, n) returns 0 and copies the message of
\* the code, cut at n characters, for each of 411, 412, 421, 423, 434, 435,
\* 436 and 441; for any other code it returns 421 and leaves errmsg alone.
C14_Messages ==
  LET code == last.arg[1]
      n    == last.arg[2]
      Named8 == {411, 412, 421, 423, 434, 435, 436, 441}
      Macro(c) == CASE c = 411 -> << Messages.ERR411 >> [] c = 412 -> << Messages.ERR412 >>
                    [] c = 421 -> << Messages.ERR421 >> [] c = 434 -> << Messages.ERR434 >>
                    [] c = 435 -> << Messages.ERR435 >> [] c = 441 -> << Messages.ERR441 >>
                    [] OTHER   -> << >>
  IN  last.op = "SMO_errMessage" =>
        IF code \in Named8
        THEN /\ last.ret = 0
             /\ last.out # << >>
             /\ \A k \in DOMAIN Macro(code) :
                  last.out = << Macro(code)[k].text, Min(Macro(code)[k].len, n) >>
        ELSE last.ret = 421 /\ last.out = << >>

C17_ArrayAllocator ==
  LET f == Bytes[disk]
      n(type) == CASE type = subcatch -> Dec4(f, 3 * RECORDSIZE)
                   [] type = node     -> Dec4(f, 4 * RECORDSIZE)
                   [] type = link     -> Dec4(f, 5 * RECORDSIZE)
                   [] OTHER           -> 1
      v(type) == CASE type = subcatch -> h.SubcatchVars
                   [] type = node     -> h.NodeVars
                   [] type = link     -> h.LinkVars
                   [] OTHER           -> h.SysVars
      Given(func, type) == SMO_newOutValueArray(h, Io(h), func, type).out[1]
  IN  IsOpen(h) =>
        /\ last.op = "SMO_newOutValueArray" =>
             CASE last.arg[1] = getAttribute ->
                    /\ last.ret = 0
                    /\ last.out = << n(last.arg[2]) >> \o [k \in 1..n(last.arg[2]) |-> 0]
               [] last.arg[1] = getResult ->
                    /\ last.ret = 0
                    /\ last.out = << v(last.arg[2]) >> \o [k \in 1..v(last.arg[2]) |-> 0]
               [] OTHER -> last.ret = 421 /\ last.out = << >>
        /\ last.op = "getAttribute" /\ last.arg[4] = "BUF" =>
             Len(last.out) = Given(getAttribute, last.arg[1])
        /\ last.op = "getResult" /\ last.arg[4] = "BUF" =>
             /\ Len(last.reads) = 1
             /\ last.reads[1][2] = RECORDSIZE * Given(getResult, last.arg[1])
             /\ Len(last.out) = Given(getResult, last.arg[1])

\* the array for the system attribute has been asked of an open file with
\* two system variables
C17_Reached ==
  /\ IsOpen(h) /\ h.SysVars = 2
  /\ last.op = "SMO_newOutValueArray" /\ last.arg = << getAttribute, sys >>
  /\ last.ret = 0 /\ last.out = << 1, 0 >>

\* C18: a file that SMO_open accepted (returned 0) is at least as long as
\* the results offset of its epilogue + its period count * BytesPerPeriod
\* + the 24 bytes of the epilogue.
C18_FileHoldsPeriods ==
  LET f == Bytes[disk]
      n == Len(f)
  IN  last.op = "SMO_open" /\ last.ret = 0 =>
        n >= Dec4(f, n - 4 * RECORDSIZE) + Dec4(f, n - 3 * RECORDSIZE) * h.BytesPerPeriod
             + 6 * RECORDSIZE

\* C19: for every year 1..9999, month 1..12 and day 1..days of the month
\* (February 29 days in the years divisible by 4 and not by 100, or by
\* 400), datetime_decodeDate of the DateTime that datetime_encodeDate gave for
\* them yields the same year, month and day.
C19_DateRoundTrip ==
  LET y == dt.year
      m == dt.month
      d == dt.day
      leap == y % 4 = 0 /\ (y % 100 # 0 \/ y % 400 = 0)
      days == IF m = 2 THEN (IF leap THEN 29 ELSE 28)
              ELSE IF m \in {4, 6, 9, 11} THEN 30 ELSE 31
  IN  /\ dt.op = "datetime_decodeDate"
      /\ 1 <= y /\ y <= 9999 /\ 1 <= m /\ m <= 12 /\ 1 <= d /\ d <= days
      => dt.out = << y, m, d >>

\* the last day of the leap year 2000 has been encoded and decoded
C19_Reached ==
  /\ dt.op = "datetime_decodeDate"
  /\ dt.year = 2000 /\ dt.month = 12 /\ dt.day = 31
  /\ dt.date = 36891 /\ dt.out = << 2000, 12, 31 >>

C21_DateFormat ==
  [][ /\ dt'.op = "datetime_setDateFormat" /\ dt' # dt =>
           dt'.DateFormat = IF dt'.fmt \in {Y_M_D, M_D_Y, D_M_Y} THEN dt'.fmt
                            ELSE dt.DateFormat
      /\ dt'.op = "datetime_dateToStr" /\ dt' # dt =>
           /\ dt'.DateFormat = dt.DateFormat
           /\ LET y == Fmt4d(dt.out[1])
                  m == MonthTxt[dt.out[2]]
                  d == Fmt02d(dt.out[3])
              IN  dt'.s = CASE dt.DateFormat = Y_M_D -> y \o << "-" >> \o m \o << "-" >> \o d
                            [] dt.DateFormat = M_D_Y -> m \o << "-" >> \o d \o << "-" >> \o y
                            [] OTHER                 -> d \o << "-" >> \o m \o << "-" >> \o y
    ]_vars

\* C22: on an open handle, after any SMO_getElementName call - valid index
\* or not - the table of IDs is there with n_sub + n_node + n_link +
\* n_pollut entries (the counts of the file header); once it is there, an
\* SMO_getElementName call seeks and reads nothing and leaves the table as it
\* is, and so does every other call but SMO_close.
C22_IdsOnce ==
  [][ LET f == Bytes[disk]
      IN  IsOpen(h) /\ last'.op # "SMO_close" =>
            /\ last'.op = "SMO_getElementName" =>
                 /\ ~h'.elementNames.null
                 /\ Len(h'.elementNames.tab)
                      = Dec4(f, 3 * RECORDSIZE) + Dec4(f, 4 * RECORDSIZE)
                        + Dec4(f, 5 * RECORDSIZE) + Dec4(f, 6 * RECORDSIZE)
            /\ ~h.elementNames.null =>
                 /\ h'.elementNames = h.elementNames
                 /\ last'.op = "SMO_getElementName" =>
                      last'.seeks = << >> /\ last'.reads = << >>
    ]_vars

\* on an open handle a name has been returned without any read: by a call
\* that found the table built
C22_Reached ==
  /\ IsOpen(h) /\ ~h.elementNames.null
  /\ last.op = "SMO_getElementName" /\ last.ret = 0
  /\ last.reads = << >> /\ Len(last.out) > 1

\* C23: no call made on an open handle other than SMO_close (and that did
\* not store through a null pointer) changes the file pointer, the four
\* entity counts, the four variable counts, FlowUnits, StartDate, ReportStep,
\* Nperiods, IDPos, ObjPropPos, ResultsPos or BytesPerPeriod, nor the state
\* of the stream or of the handle block; and only SMO_getElementName changes
\* the table of IDs.
C23_QueryFrame ==
  [][ IsOpen(h) /\ last'.op \notin {"SMO_open", "SMO_close"} /\ ~last'.wild =>
        /\ \A fld \in {"file", "Nsubcatch", "Nnodes", "Nlinks", "Npolluts",
                       "SubcatchVars", "NodeVars", "LinkVars", "SysVars",
                       "FlowUnits", "StartDate", "ReportStep", "Nperiods",
                       "IDPos", "ObjPropPos", "ResultsPos", "BytesPerPeriod"} :
             h'[fld] = h[fld]
        /\ DOMAIN h' = DOMAIN h
        /\ stream' = stream /\ handle' = handle
        /\ last'.op # "SMO_getElementName" => h'.elementNames = h.elementNames
    ]_vars

\* on an open file with a pollutant, SMO_getElementName has built the table
\* of IDs, and the pollutant count is the header's
C23_Reached ==
  /\ IsOpen(h) /\ last.op = "SMO_getElementName" /\ last.reads # << >>
  /\ ~h.elementNames.null
  /\ h.Npolluts = 1 /\ Dec4(Bytes[disk], 6 * RECORDSIZE) = 1

\* C24: on an open handle, for every start >= 0 and length >= 0 with
\* start + length <= Nperiods, and every kind, entity and attribute, the
\* series query called with (start, length) stores no more words than the
\* length that SMO_newOutValueSeries(start, length) reports for its array.
C24_SeriesFits ==
  LET f == Bytes[disk]
  IN  IsOpen(h) =>
        \A start \in 0..h.Nperiods : \A length \in 0..(h.Nperiods - start) :
          \A kind \in Kinds, u \in StackJunk :
            \A i \in 0..(Count(h, kind) - 1), a \in 0..(VarCount(h, kind) - 1) :
              Len(SeriesOf(kind, h, Io(h), f, u, i, a, start, length,
                           Buf("BUF", length)).out)
                <= SMO_newOutValueSeries(h, Io(h), start, length).out[1]

\* C25: after SMO_open has returned 0, IDPos, ObjPropPos and ResultsPos are
\* the 64-bit values of the signed 32-bit words 1 to 3 of the epilogue, and
\* Nperiods is its word 4: no bit of them comes from elsewhere than the file.
C25_OffsetsFromFile ==
  LET f == Bytes[disk]
      n == Len(f)
      Wide(v) == W64(IF v < 0 THEN -1 ELSE 0, v)
  IN  last.op = "SMO_open" /\ last.ret = 0 =>
        /\ h.IDPos      = Wide(Dec4(f, n - 6 * RECORDSIZE))
        /\ h.ObjPropPos = Wide(Dec4(f, n - 5 * RECORDSIZE))
        /\ h.ResultsPos = Wide(Dec4(f, n - 4 * RECORDSIZE))
        /\ h.Nperiods   = Dec4(f, n - 3 * RECORDSIZE)
====
